---------------------------- MODULE Spec2Model ----------------------------
(***************************************************************************)
(* Model of the Processor node of easy_perception_deployment               *)
(* (include/epd_utils_lib/processor.hpp).                                  *)
(*                                                                         *)
(* The node owns one EPD::EPDContainer (ortAgent_) and has two callbacks,  *)
(* topic_callback (one camera frame) and state_callback (one control      *)
(* directive).  The host executor runs one callback at a time, to          *)
(* completion, so each callback is one action.  An exception thrown by a   *)
(* callback leaves the callback; the members of the node keep the values   *)
(* they had at the throw, and the model lets the host go on dispatching.   *)
(***************************************************************************)
EXTENDS Integers, Sequences, FiniteSets, TLC

VARIABLES
  ortAgent_,   \* the EPDContainer member: init flag, frame dimension, configuration
  rclcpp_ok,   \* FALSE once rclcpp::shutdown() has been called
  run,         \* history: how many image messages topic_callback has received,
               \* whether all were non-empty and of the dimension of the first
               \* (then kept in first), and the first of non-zero height
  initCalls,   \* history: number of calls of ortAgent_.initORTSessionHandler()
  last,        \* history: what the most recent callback received and did
  probe,       \* the projector probe: a detector output and its projection
  exec         \* the executor: the two subscription queues, the callback in
               \* progress, and the trace of what has happened

vars == <<ortAgent_, rclcpp_ok, run, initCalls, last, probe, exec>>

(***************************************************************************)
(* Bounds of the model.                                                    *)
(***************************************************************************)
MaxDim == 2        \* frame widths and heights range over 1..MaxDim
MaxFrames == 3     \* image messages delivered in one run
MaxN == 2          \* data_size of a detector output, length of a list of names
MaxCoord == 1      \* box coordinates range over 0..MaxCoord
MaxFaults == 1     \* failures of the session initializer in one run
MaxDirectives == 1 \* control messages arriving in one run of the executor

(***************************************************************************)
(* Input domains.                                                          *)
(***************************************************************************)
Dims == 1..MaxDim
\* sensor_msgs::msg::Image as far as the callback reads it
ImageMsgs == [width : Dims, height : {0} \cup Dims]
\* configuration of the container, fixed at construction
PrecisionLevels == 0..4
\* std_msgs::msg::String payloads, as the list of their NUL-free segments:
\* <<"shutdown", "x">> is the 10-character string "shutdown\0x"
Payloads == {<<"shutdown">>, <<"pause">>, <<"">>, <<"Shutdown">>,
             <<"shutdown", "x">>, <<"", "shutdown">>}

ClassIds == {3, 7}
Scores == {40, 90}
\* cv::Mat values: dimensions and an identifier of the pixel data
Masks == {[cols |-> 1, rows |-> 1, data |-> "maskA"],
          [cols |-> 2, rows |-> 1, data |-> "maskB"]}
Coords == 0..MaxCoord
Boxes == {<<x1, y1, x2, y2>> : x1 \in Coords, y1 \in Coords, x2 \in Coords, y2 \in Coords}

SeqsUpTo(S, n) == UNION {[1..k -> S] : k \in 0..n}
\* the lists of length at most n that alternate between x and y
Alternating(x, y, n) ==
  {[i \in 1..k |-> IF i % 2 = 1 THEN x ELSE y] : k \in 0..n} \cup
  {[i \in 1..k |-> IF i % 2 = 1 THEN y ELSE x] : k \in 0..n}


(***************************************************************************)
(* EPD::EPDContainer.  The class is declared in epd_utils_lib/             *)
(* epd_container.hpp; the node only calls it.  It is modelled as a record  *)
(* with plain accessors: init flag, frame dimension, the session built by  *)
(* initORTSessionHandler (the dimension it was built for), and the         *)
(* configuration read at construction.                                     *)
(***************************************************************************)
NoSession == <<>>

isInit(a) == a.init
setInitBoolean(a, b) == [a EXCEPT !.init = b]
setFrameDimension(a, w, h) == [a EXCEPT !.width = w, !.height = h]
getWidth(a) == a.width
getHeight(a) == a.height
isVisualize(a) == a.visualize
\* builds the session for the stored frame dimension
initORTSessionHandler(a) == [a EXCEPT !.session = <<a.width, a.height>>]

\* the container as constructed, for one configuration
NewContainer(level, vis) ==
  [init |-> FALSE, width |-> 0, height |-> 0, session |-> NoSession,
   precision_level |-> level, visualize |-> vis]

(***************************************************************************)
(* Publishers created by the constructor, by topic.                        *)
(***************************************************************************)
visual_pub == "/processor/output"
p1_pub == "/processor/epd_p1_output"
p2_pub == "/processor/epd_p2_output"
p3_pub == "/processor/epd_p3_output"
Topics == {visual_pub, p1_pub, p2_pub, p3_pub}

(***************************************************************************)
(* cv_bridge conversions.                                                  *)
(***************************************************************************)
EmptyHeader == [stamp |-> 0, frame_id |-> ""]

\* cv_bridge::toCvCopy(msg, "bgr8")->image: cols is the width, rows the height
toCvCopy(msg) == [cols |-> msg.width, rows |-> msg.height, data |-> "frame"]

\* cv_bridge::CvImage(header, encoding, mat).toImageMsg()
toImageMsg(header, encoding, mat) ==
  [header |-> header, encoding |-> encoding,
   width |-> mat.cols, height |-> mat.rows, data |-> mat.data]

(***************************************************************************)
(* uint32 fields of sensor_msgs::msg::RegionOfInterest.  A uint32 is kept  *)
(* as its two 16-bit halves, so that the conversion of a negative          *)
(* difference (reduction modulo 2^32) is exact: -1 becomes                 *)
(* [hi |-> 65535, lo |-> 65535].                                           *)
(***************************************************************************)
Half == 2 ^ 16
Uint32(n) == [hi |-> (n \div Half) % Half, lo |-> n % Half]

(***************************************************************************)
(* Result projector: the loops of cases 2 and 3 of topic_callback.         *)
(* A detector output (EPD::EPDObjectDetection) is the record               *)
(* [data_size, classIndices, scores, bboxes, masks]; the vectors are       *)
(* indexed from 0 in the code and from 1 here.                             *)
(***************************************************************************)
\* a default-constructed epd_msgs::msg::EPDObjectDetection
EmptyDetectionMsg == [class_indices |-> <<>>, scores |-> <<>>, bboxes |-> <<>>, masks |-> <<>>]

\* RoiP2 with the width taken to be the right edge
RoiP2_rightEdge(bbox) ==
  [x_offset |-> Uint32(bbox[1]),
   y_offset |-> Uint32(bbox[2]),
   width |-> Uint32(bbox[3]),
   height |-> Uint32(bbox[4] - bbox[2]),
   do_rectify |-> FALSE]

\* the RegionOfInterest built in case 2
RoiP2(bbox) ==
  [x_offset |-> Uint32(bbox[1]),
   y_offset |-> Uint32(bbox[2]),
   width |-> Uint32(bbox[3] - bbox[1]),
   height |-> Uint32(bbox[4] - bbox[2]),
   do_rectify |-> FALSE]

\* the RegionOfInterest built in case 3
RoiP3(bbox) ==
  [x_offset |-> Uint32(bbox[1]),
   y_offset |-> Uint32(bbox[2]),
   width |-> Uint32(bbox[3] - bbox[1]),
   height |-> Uint32(bbox[4] - bbox[2]),
   do_rectify |-> FALSE]

\* for (size_t i = 0; i < result.data_size; i++) of case 2, from iteration i on
RECURSIVE P2Loop(_, _, _)
P2Loop(result, i, output_msg) ==
  IF i < result.data_size
    THEN P2Loop(result, i + 1,
           [output_msg EXCEPT
              !.class_indices = Append(@, result.classIndices[i + 1]),
              !.scores = Append(@, result.scores[i + 1]),
              !.bboxes = Append(@, RoiP2(result.bboxes[i + 1]))])
    ELSE output_msg

\* for (size_t i = 0; i < result.data_size; i++) of case 3, from iteration i on
RECURSIVE P3Loop(_, _, _)
P3Loop(result, i, output_msg) ==
  IF i < result.data_size
    THEN P3Loop(result, i + 1,
           [output_msg EXCEPT
              !.class_indices = Append(@, result.classIndices[i + 1]),
              !.scores = Append(@, result.scores[i + 1]),
              !.bboxes = Append(@, RoiP3(result.bboxes[i + 1])),
              !.masks = Append(@, toImageMsg(EmptyHeader, "32FC1", result.masks[i + 1]))])
    ELSE output_msg

\* ProjectP2 with the loop started at index 1
ProjectP2_fromOne(result) == P2Loop(result, 1, EmptyDetectionMsg)

\* the message case 2 publishes for a detector output
ProjectP2(result) == P2Loop(result, 0, EmptyDetectionMsg)

\* ProjectP3 ranking the detections from the last to the first
ProjectP3_reversed(result) ==
  LET rev(v) == [i \in 1..Len(v) |-> v[Len(v) + 1 - i]]
  IN  P3Loop([result EXCEPT !.classIndices = rev(@), !.scores = rev(@),
                            !.bboxes = rev(@), !.masks = rev(@)],
             0, EmptyDetectionMsg)

\* the message case 3 publishes for a detector output
ProjectP3(result) == P3Loop(result, 0, EmptyDetectionMsg)

(***************************************************************************)
(* What the session operations return.  The sessions are external; a       *)
(* return value is an input of the callback.  ret is the record            *)
(* [names, image, result]: the value of p1 infer, of infer_visualize and   *)
(* of infer_action; the dispatcher reads the one its branch asks for.      *)
(***************************************************************************)
\* a detector output made of a list of detections, all vectors of length data_size
ResultOf(items, withMasks) ==
  [data_size |-> Len(items),
   classIndices |-> [i \in 1..Len(items) |-> items[i].cls],
   scores |-> [i \in 1..Len(items) |-> items[i].score],
   bboxes |-> [i \in 1..Len(items) |-> items[i].bbox],
   masks |-> IF withMasks THEN [i \in 1..Len(items) |-> items[i].mask] ELSE <<>>]

\* the two detections the detector of a run reports, in either order
StubItemA == [cls |-> 3, score |-> 90, bbox |-> <<0, 0, 1, 1>>,
              mask |-> [cols |-> 1, rows |-> 1, data |-> "maskA"]]
StubItemB == [cls |-> 7, score |-> 40, bbox |-> <<1, 0, 1, 1>>,
              mask |-> [cols |-> 2, rows |-> 1, data |-> "maskB"]]

NoNames == <<>>
NoImage == [cols |-> 0, rows |-> 0, data |-> "none"]
NoResult == ResultOf(<<>>, FALSE)
NoReturn == [names |-> NoNames, image |-> NoImage, result |-> NoResult]

\* the annotated copy of the frame that infer_visualize returns
Annotated(img) == [cols |-> img.cols, rows |-> img.rows, data |-> "annotated"]

SessionReturns(a, img) ==
  IF a.precision_level = 1
    THEN {[NoReturn EXCEPT !.names = n] : n \in Alternating("cup", "book", MaxN)}
  ELSE IF a.precision_level \in {2, 3} /\ isVisualize(a)
    THEN {[NoReturn EXCEPT !.image = Annotated(img)]}
  ELSE IF a.precision_level \in {2, 3}
    THEN {[NoReturn EXCEPT !.result = ResultOf(items, a.precision_level = 3)] :
            items \in Alternating(StubItemA, StubItemB, MaxN)}
  ELSE {NoReturn}

(***************************************************************************)
(* topic_callback, in the order of the code.                               *)
(***************************************************************************)
NoThrow == "none"
CameraChanged == "Input camera changed. Please restart."
SessionError == "session error"

\* EmptyFrame testing the width
EmptyFrame_width(msg) == msg.width = 0

\* if (msg->height == 0)
EmptyFrame(msg) == msg.height = 0

\* GeometryChanged with || for &&
GeometryChanged_either(a, img) == getWidth(a) # img.cols \/ getHeight(a) # img.rows

\* the condition of the geometry guard
GeometryChanged(a, img) == getWidth(a) # img.cols /\ getHeight(a) # img.rows

\* Bootstrap without the isInit test: every frame initializes
Bootstrap_always(a, img, initOk) ==
  LET a1 == setFrameDimension(a, img.cols, img.rows) IN
  IF initOk
    THEN [agent |-> setInitBoolean(initORTSessionHandler(a1), TRUE),
          calls |-> <<"setFrameDimension", "initORTSessionHandler", "setInitBoolean">>,
          thrown |-> NoThrow]
    ELSE [agent |-> a1,
          calls |-> <<"setFrameDimension", "initORTSessionHandler">>,
          thrown |-> SessionError]

\* Bootstrap without setInitBoolean(true)
Bootstrap_noFlag(a, img, initOk) ==
  IF ~isInit(a)
    THEN LET a1 == setFrameDimension(a, img.cols, img.rows) IN
         IF initOk
           THEN [agent |-> initORTSessionHandler(a1),
                 calls |-> <<"setFrameDimension", "initORTSessionHandler">>,
                 thrown |-> NoThrow]
           ELSE [agent |-> a1,
                 calls |-> <<"setFrameDimension", "initORTSessionHandler">>,
                 thrown |-> SessionError]
    ELSE IF GeometryChanged(a, img)
           THEN [agent |-> a, calls |-> <<>>, thrown |-> CameraChanged]
           ELSE [agent |-> a, calls |-> <<>>, thrown |-> NoThrow]

\* Bootstrap setting the init flag before it calls the initializer
Bootstrap_flagFirst(a, img, initOk) ==
  IF ~isInit(a)
    THEN LET a1 == setInitBoolean(setFrameDimension(a, img.cols, img.rows), TRUE) IN
         IF initOk
           THEN [agent |-> initORTSessionHandler(a1),
                 calls |-> <<"setFrameDimension", "setInitBoolean", "initORTSessionHandler">>,
                 thrown |-> NoThrow]
           ELSE [agent |-> a1,
                 calls |-> <<"setFrameDimension", "setInitBoolean", "initORTSessionHandler">>,
                 thrown |-> SessionError]
    ELSE IF GeometryChanged(a, img)
           THEN [agent |-> a, calls |-> <<>>, thrown |-> CameraChanged]
           ELSE [agent |-> a, calls |-> <<>>, thrown |-> NoThrow]

\* Bootstrap initializing again, for the new dimension, when the geometry changed
Bootstrap_reinit(a, img, initOk) ==
  IF ~isInit(a) \/ GeometryChanged(a, img)
    THEN LET a1 == setFrameDimension(a, img.cols, img.rows) IN
         IF initOk
           THEN [agent |-> setInitBoolean(initORTSessionHandler(a1), TRUE),
                 calls |-> <<"setFrameDimension", "initORTSessionHandler", "setInitBoolean">>,
                 thrown |-> NoThrow]
           ELSE [agent |-> a1,
                 calls |-> <<"setFrameDimension", "initORTSessionHandler">>,
                 thrown |-> SessionError]
    ELSE [agent |-> a, calls |-> <<>>, thrown |-> NoThrow]

\* if (!ortAgent_.isInit()) {...} else {...}: the container afterwards, the
\* container calls made, and the exception thrown.  initOk: the session
\* initializer returns normally.
Bootstrap(a, img, initOk) ==
  IF ~isInit(a)
    THEN LET a1 == setFrameDimension(a, img.cols, img.rows) IN
         IF initOk
           THEN [agent |-> setInitBoolean(initORTSessionHandler(a1), TRUE),
                 calls |-> <<"setFrameDimension", "initORTSessionHandler", "setInitBoolean">>,
                 thrown |-> NoThrow]
           ELSE [agent |-> a1,
                 calls |-> <<"setFrameDimension", "initORTSessionHandler">>,
                 thrown |-> SessionError]
    ELSE IF GeometryChanged(a, img)
           THEN [agent |-> a, calls |-> <<>>, thrown |-> CameraChanged]
           ELSE [agent |-> a, calls |-> <<>>, thrown |-> NoThrow]

Pub(topic, msg) == [topic |-> topic, msg |-> msg]

\* Dispatch publishing the structured message in visualize mode as well
Dispatch_both(a, img, ret) ==
  CASE a.precision_level = 1 ->
         [calls |-> <<"p1.infer">>,
          published |-> <<Pub(p1_pub, [object_names |-> ret.names])>>]
    [] a.precision_level = 2 ->
         IF isVisualize(a)
           THEN [calls |-> <<"p2.infer_visualize", "p2.infer_action">>,
                 published |-> <<Pub(visual_pub, toImageMsg(EmptyHeader, "bgr8", ret.image)),
                                 Pub(p2_pub, ProjectP2(ret.result))>>]
           ELSE [calls |-> <<"p2.infer_action">>,
                 published |-> <<Pub(p2_pub, ProjectP2(ret.result))>>]
    [] a.precision_level = 3 ->
         IF isVisualize(a)
           THEN [calls |-> <<"p3.infer_visualize", "p3.infer_action">>,
                 published |-> <<Pub(visual_pub, toImageMsg(EmptyHeader, "bgr8", ret.image)),
                                 Pub(p3_pub, ProjectP3(ret.result))>>]
           ELSE [calls |-> <<"p3.infer_action">>,
                 published |-> <<Pub(p3_pub, ProjectP3(ret.result))>>]
    [] OTHER -> [calls |-> <<>>, published |-> <<>>]

\* Dispatch with the break of case 2 missing: case 2 runs on into case 3
Dispatch_fallThrough(a, img, ret) ==
  LET case3 ==
        IF isVisualize(a)
          THEN [calls |-> <<"p3.infer_visualize">>,
                published |-> <<Pub(visual_pub, toImageMsg(EmptyHeader, "bgr8", ret.image))>>]
          ELSE [calls |-> <<"p3.infer_action">>,
                published |-> <<Pub(p3_pub, ProjectP3(ret.result))>>]
      case2 ==
        IF isVisualize(a)
          THEN [calls |-> <<"p2.infer_visualize">>,
                published |-> <<Pub(visual_pub, toImageMsg(EmptyHeader, "bgr8", ret.image))>>]
          ELSE [calls |-> <<"p2.infer_action">>,
                published |-> <<Pub(p2_pub, ProjectP2(ret.result))>>]
  IN
  CASE a.precision_level = 1 ->
         [calls |-> <<"p1.infer">>,
          published |-> <<Pub(p1_pub, [object_names |-> ret.names])>>]
    [] a.precision_level = 2 ->
         [calls |-> case2.calls \o case3.calls,
          published |-> case2.published \o case3.published]
    [] a.precision_level = 3 -> case3
    [] OTHER -> [calls |-> <<>>, published |-> <<>>]

\* Dispatch with case 1 honouring the visualize flag
Dispatch_p1Visualize(a, img, ret) ==
  CASE a.precision_level = 1 ->
         IF isVisualize(a)
           THEN [calls |-> <<"p1.infer">>,
                 published |-> <<Pub(visual_pub, toImageMsg(EmptyHeader, "bgr8", img))>>]
           ELSE [calls |-> <<"p1.infer">>,
                 published |-> <<Pub(p1_pub, [object_names |-> ret.names])>>]
    [] a.precision_level = 2 ->
         IF isVisualize(a)
           THEN [calls |-> <<"p2.infer_visualize">>,
                 published |-> <<Pub(visual_pub, toImageMsg(EmptyHeader, "bgr8", ret.image))>>]
           ELSE [calls |-> <<"p2.infer_action">>,
                 published |-> <<Pub(p2_pub, ProjectP2(ret.result))>>]
    [] a.precision_level = 3 ->
         IF isVisualize(a)
           THEN [calls |-> <<"p3.infer_visualize">>,
                 published |-> <<Pub(visual_pub, toImageMsg(EmptyHeader, "bgr8", ret.image))>>]
           ELSE [calls |-> <<"p3.infer_action">>,
                 published |-> <<Pub(p3_pub, ProjectP3(ret.result))>>]
    [] OTHER -> [calls |-> <<>>, published |-> <<>>]

\* Dispatch with a default label on case 1
Dispatch_defaultP1(a, img, ret) ==
  CASE a.precision_level = 2 ->
         IF isVisualize(a)
           THEN [calls |-> <<"p2.infer_visualize">>,
                 published |-> <<Pub(visual_pub, toImageMsg(EmptyHeader, "bgr8", ret.image))>>]
           ELSE [calls |-> <<"p2.infer_action">>,
                 published |-> <<Pub(p2_pub, ProjectP2(ret.result))>>]
    [] a.precision_level = 3 ->
         IF isVisualize(a)
           THEN [calls |-> <<"p3.infer_visualize">>,
                 published |-> <<Pub(visual_pub, toImageMsg(EmptyHeader, "bgr8", ret.image))>>]
           ELSE [calls |-> <<"p3.infer_action">>,
                 published |-> <<Pub(p3_pub, ProjectP3(ret.result))>>]
    [] OTHER ->
         [calls |-> <<"p1.infer">>,
          published |-> <<Pub(p1_pub, [object_names |-> ret.names])>>]

\* switch (ortAgent_.precision_level): the session calls made and the
\* messages published, in order
Dispatch(a, img, ret) ==
  CASE a.precision_level = 1 ->
         [calls |-> <<"p1.infer">>,
          published |-> <<Pub(p1_pub, [object_names |-> ret.names])>>]
    [] a.precision_level = 2 ->
         IF isVisualize(a)
           THEN [calls |-> <<"p2.infer_visualize">>,
                 published |-> <<Pub(visual_pub, toImageMsg(EmptyHeader, "bgr8", ret.image))>>]
           ELSE [calls |-> <<"p2.infer_action">>,
                 published |-> <<Pub(p2_pub, ProjectP2(ret.result))>>]
    [] a.precision_level = 3 ->
         IF isVisualize(a)
           THEN [calls |-> <<"p3.infer_visualize">>,
                 published |-> <<Pub(visual_pub, toImageMsg(EmptyHeader, "bgr8", ret.image))>>]
           ELSE [calls |-> <<"p3.infer_action">>,
                 published |-> <<Pub(p3_pub, ProjectP3(ret.result))>>]
    [] OTHER -> [calls |-> <<>>, published |-> <<>>]

\* FrameResult with the geometry guard reporting the change and going on
FrameResult_goOn(a, msg, initOk, ret) ==
  IF EmptyFrame(msg)
    THEN [agent |-> a, calls |-> <<>>, published |-> <<>>, thrown |-> NoThrow,
          warned |-> <<"Input image empty. Discarding.">>, dispatched |-> FALSE]
    ELSE LET img == toCvCopy(msg)
             boot == Bootstrap(a, img, initOk)
             d == Dispatch(boot.agent, img, ret)
         IN  [agent |-> boot.agent, calls |-> boot.calls \o d.calls,
              published |-> d.published, thrown |-> boot.thrown,
              warned |-> <<>>, dispatched |-> TRUE]

\* FrameResult running the switch before the bootstrap
FrameResult_inferFirst(a, msg, initOk, ret) ==
  IF EmptyFrame(msg)
    THEN [agent |-> a, calls |-> <<>>, published |-> <<>>, thrown |-> NoThrow,
          warned |-> <<"Input image empty. Discarding.">>, dispatched |-> FALSE]
    ELSE LET img == toCvCopy(msg)
             d == Dispatch(a, img, ret)
             boot == Bootstrap(a, img, initOk)
         IN  [agent |-> boot.agent, calls |-> d.calls \o boot.calls,
              published |-> d.published, thrown |-> boot.thrown,
              warned |-> <<>>, dispatched |-> TRUE]

\* the whole callback on one message: container afterwards, calls, messages
\* published, exception thrown, warnings logged, whether the switch was reached
FrameResult(a, msg, initOk, ret) ==
  IF EmptyFrame(msg)
    THEN [agent |-> a, calls |-> <<>>, published |-> <<>>, thrown |-> NoThrow,
          warned |-> <<"Input image empty. Discarding.">>, dispatched |-> FALSE]
    ELSE LET img == toCvCopy(msg)
             boot == Bootstrap(a, img, initOk)
         IN  IF boot.thrown # NoThrow
               THEN [agent |-> boot.agent, calls |-> boot.calls, published |-> <<>>,
                     thrown |-> boot.thrown, warned |-> <<>>, dispatched |-> FALSE]
               ELSE LET d == Dispatch(boot.agent, img, ret) IN
                    [agent |-> boot.agent, calls |-> boot.calls \o d.calls,
                     published |-> d.published, thrown |-> NoThrow,
                     warned |-> <<>>, dispatched |-> TRUE]

(***************************************************************************)
(* state_callback.                                                         *)
(***************************************************************************)
\* msg->data.c_str() read back into a std::string: the text before the first NUL
c_str(data) == data[1]

\* whether rclcpp::shutdown() is called, and the warnings logged
StateResult(data) ==
  LET requested_state == c_str(data) IN
  IF requested_state = "shutdown"
    THEN [shutdown |-> TRUE, warned |-> <<>>]
    ELSE [shutdown |-> FALSE, warned |-> <<"Invalid state requested.">>]

(***************************************************************************)
(* The state machine.                                                      *)
(***************************************************************************)
Count(seq, x) == Cardinality({i \in 1..Len(seq) : seq[i] = x})

NoPayload == <<"">>
NoMsg == [width |-> 0, height |-> 0]
NoRun == [n |-> 0, first |-> NoMsg, uniform |-> TRUE, firstValid |-> NoMsg]
NoExec == [imageQ |-> <<>>, stateQ |-> <<>>, frames |-> 0, directives |-> 0,
           pc |-> "idle", cur |-> [id |-> 0, msg |-> NoMsg], trace |-> <<>>]
NoProbe == [level |-> 0, result |-> NoResult, msg |-> EmptyDetectionMsg, done |-> FALSE]

\* the record kept of a callback
Record(kind, msg, data, before, ret, r) ==
  [kind |-> kind, msg |-> msg, data |-> data, before |-> before, ret |-> ret,
   calls |-> r.calls, published |-> r.published, thrown |-> r.thrown,
   warned |-> r.warned, dispatched |-> r.dispatched]

Nothing == [calls |-> <<>>, published |-> <<>>, thrown |-> NoThrow,
            warned |-> <<>>, dispatched |-> FALSE]

Init ==
  /\ \E level \in PrecisionLevels : \E vis \in BOOLEAN :
       /\ ortAgent_ = NewContainer(level, vis)
       /\ last = Record("none", NoMsg, NoPayload, NewContainer(level, vis), NoReturn, Nothing)
  /\ rclcpp_ok = TRUE
  /\ run = NoRun
  /\ initCalls = 0
  /\ probe = NoProbe
  /\ exec = NoExec

\* one image message delivered to topic_callback
Frame(msg, initOk, ret) ==
  LET r == FrameResult(ortAgent_, msg, initOk, ret) IN
  /\ ortAgent_' = r.agent
  /\ run' = [n |-> run.n + 1,
              first |-> IF run.n = 0 /\ ~EmptyFrame(msg) THEN msg
                        ELSE IF run.uniform /\ msg = run.first THEN run.first
                        ELSE NoMsg,
              uniform |-> /\ run.uniform
                          /\ ~EmptyFrame(msg)
                          /\ run.n > 0 => msg = run.first,
              firstValid |-> IF run.firstValid = NoMsg /\ ~EmptyFrame(msg)
                               THEN msg ELSE run.firstValid]
  /\ initCalls' = initCalls + Count(r.calls, "initORTSessionHandler")
  /\ last' = Record("frame", msg, NoPayload, ortAgent_,
                    IF r.dispatched THEN ret ELSE NoReturn, r)
  /\ UNCHANGED <<rclcpp_ok, probe, exec>>

topic_callback ==
  /\ rclcpp_ok
  /\ run.n < MaxFrames
  /\ \E msg \in ImageMsgs : \E ret \in SessionReturns(ortAgent_, toCvCopy(msg)) :
       Frame(msg, TRUE, ret)

\* the same, the session initializer failing when it is called
topic_callback_fault ==
  /\ rclcpp_ok
  /\ run.n < MaxFrames
  /\ ~isInit(ortAgent_)
  /\ initCalls < MaxFaults
  /\ \E msg \in ImageMsgs : ~EmptyFrame(msg) /\ Frame(msg, FALSE, NoReturn)

state_callback ==
  /\ rclcpp_ok
  /\ \E data \in Payloads :
       LET r == StateResult(data) IN
       /\ rclcpp_ok' = ~r.shutdown
       /\ last' = Record("state", NoMsg, data, ortAgent_, NoReturn,
                         [Nothing EXCEPT !.warned = r.warned])
  /\ UNCHANGED <<ortAgent_, run, initCalls, probe, exec>>

Next == topic_callback \/ state_callback

Spec == Init /\ [][Next]_vars

\* the session layer may fail to initialize
NextFault == topic_callback \/ topic_callback_fault \/ state_callback

SpecFault == Init /\ [][NextFault]_vars

(***************************************************************************)
(* The projector on its own: every detector output over Boxes, projected   *)
(* by the loop of case 2 or of case 3.                                     *)
(***************************************************************************)
ProbeItems == {[cls |-> 3, score |-> 90, bbox |-> b, mask |-> [cols |-> 1, rows |-> 1, data |-> "maskA"]] :
                 b \in Boxes}

ProbeInit ==
  /\ ortAgent_ = NewContainer(0, FALSE)
  /\ last = Record("none", NoMsg, NoPayload, NewContainer(0, FALSE), NoReturn, Nothing)
  /\ rclcpp_ok = TRUE
  /\ run = NoRun
  /\ initCalls = 0
  /\ exec = NoExec
  /\ \E level \in {2, 3} : \E items \in SeqsUpTo(ProbeItems, MaxN) :
       probe = [level |-> level, result |-> ResultOf(items, level = 3),
                msg |-> EmptyDetectionMsg, done |-> FALSE]

Project ==
  /\ ~probe.done
  /\ probe' = [probe EXCEPT !.done = TRUE,
                            !.msg = IF probe.level = 2 THEN ProjectP2(probe.result)
                                                       ELSE ProjectP3(probe.result)]
  /\ UNCHANGED <<ortAgent_, rclcpp_ok, run, initCalls, last, exec>>

SpecProjector == ProbeInit /\ [][Project]_vars

(***************************************************************************)
(* The node under its executor.  Image and control messages arrive on the  *)
(* two subscriptions (queue depth 10 each) and wait in their queues; the   *)
(* executor (rclcpp::spin on one thread) takes the next message of either  *)
(* subscription when no callback is running and runs its callback to the   *)
(* end.  topic_callback is followed in three steps: entry, body (all of    *)
(* lines 127-239, the publish calls included, which are synchronous) and   *)
(* return.  The trace lists the events in the order they happen.           *)
(***************************************************************************)
QueueDepth == 10

\* the frames and directives that arrive in these runs
ExecImageMsgs == {m \in ImageMsgs : m.width = 1}
ExecPayloads == {<<"shutdown">>, <<"pause">>}

Event(ev, id) == [ev |-> ev, id |-> id]

\* the executor dispatching with callbacks still running
ExecutorReady_reentrant(e) == TRUE

\* the single-threaded executor dispatches only between callbacks
ExecutorReady(e) == e.pc = "idle"

ExecInit ==
  /\ \E level \in PrecisionLevels : \E vis \in BOOLEAN :
       /\ ortAgent_ = NewContainer(level, vis)
       /\ last = Record("none", NoMsg, NoPayload, NewContainer(level, vis), NoReturn, Nothing)
  /\ rclcpp_ok = TRUE
  /\ run = NoRun
  /\ initCalls = 0
  /\ probe = NoProbe
  /\ exec = NoExec

\* an image message arrives on /processor/image_input
ArriveFrame ==
  /\ exec.frames < MaxFrames
  /\ Len(exec.imageQ) < QueueDepth
  /\ \E msg \in ExecImageMsgs :
       exec' = [exec EXCEPT !.frames = @ + 1,
                            !.imageQ = Append(@, [id |-> exec.frames + 1, msg |-> msg])]
  /\ UNCHANGED <<ortAgent_, rclcpp_ok, run, initCalls, last, probe>>

\* a control message arrives on /processor/state_input
ArriveState ==
  /\ exec.directives < MaxDirectives
  /\ Len(exec.stateQ) < QueueDepth
  /\ \E data \in ExecPayloads :
       exec' = [exec EXCEPT !.directives = @ + 1, !.stateQ = Append(@, data)]
  /\ UNCHANGED <<ortAgent_, rclcpp_ok, run, initCalls, last, probe>>

\* the executor calls topic_callback on the oldest waiting image message
BeginFrame ==
  /\ rclcpp_ok
  /\ ExecutorReady(exec)
  /\ exec.imageQ # <<>>
  /\ exec' = [exec EXCEPT !.imageQ = Tail(@), !.pc = "body", !.cur = Head(exec.imageQ),
                          !.trace = Append(@, Event("begin", Head(exec.imageQ).id))]
  /\ UNCHANGED <<ortAgent_, rclcpp_ok, run, initCalls, last, probe>>

\* the body of topic_callback on the current message
BodyFrame ==
  /\ exec.pc = "body"
  /\ \E ret \in SessionReturns(ortAgent_, toCvCopy(exec.cur.msg)) :
       LET r == FrameResult(ortAgent_, exec.cur.msg, TRUE, ret) IN
       /\ ortAgent_' = r.agent
       /\ exec' = [exec EXCEPT
                     !.pc = "return",
                     !.trace = @ \o [i \in 1..Len(r.published) |-> Event("publish", exec.cur.id)]]
  /\ UNCHANGED <<rclcpp_ok, run, initCalls, last, probe>>

\* topic_callback returns, or its exception leaves it
EndFrame ==
  /\ exec.pc = "return"
  /\ exec' = [exec EXCEPT !.pc = "idle", !.trace = Append(@, Event("end", exec.cur.id))]
  /\ UNCHANGED <<ortAgent_, rclcpp_ok, run, initCalls, last, probe>>

\* the executor calls state_callback on the oldest waiting control message
HandleState ==
  /\ rclcpp_ok
  /\ ExecutorReady(exec)
  /\ exec.stateQ # <<>>
  /\ rclcpp_ok' = ~StateResult(Head(exec.stateQ)).shutdown
  /\ exec' = [exec EXCEPT !.stateQ = Tail(@), !.trace = Append(@, Event("state", 0))]
  /\ UNCHANGED <<ortAgent_, run, initCalls, last, probe>>

ExecNext ==
  ArriveFrame \/ ArriveState \/ BeginFrame \/ BodyFrame \/ EndFrame \/ HandleState

SpecExec == ExecInit /\ [][ExecNext]_vars

(***************************************************************************)
(* Properties.                                                             *)
(***************************************************************************)
InferOps == {"p1.infer", "p2.infer_visualize", "p2.infer_action",
             "p3.infer_visualize", "p3.infer_action"}
IsInferOp(c) == c \in InferOps
InferCalls(calls) == SelectSeq(calls, IsInferOp)
TopicsOf(published) == {published[i].topic : i \in 1..Len(published)}

\* the last callback was topic_callback on a frame of non-zero height
ValidFrame == last.kind = "frame" /\ last.msg.height # 0
\* the stored frame dimension and init flag are those before the last callback
SessionStateKept ==
  /\ ortAgent_.init = last.before.init
  /\ ortAgent_.width = last.before.width
  /\ ortAgent_.height = last.before.height

\* C1: as long as every frame received so far is non-empty and has the
\* dimension of the first one, the session initializer has been called
\* exactly once, and that call was made by the callback of the first frame:
\* the callback of every later frame makes no such call.
C1_InitOnce ==
  (run.n >= 1 /\ run.uniform) =>
    /\ initCalls = 1
    /\ last.kind = "frame" =>
         Count(last.calls, "initORTSessionHandler") = (IF run.n = 1 THEN 1 ELSE 0)

C1_Witness ==
  /\ run.n = MaxFrames
  /\ run.uniform
  /\ last.kind = "frame"
  /\ initCalls = 1

\* C2: after topic_callback has processed a frame of non-zero height, the
\* container is initialized, on the first such frame and on every later one.
C2_InitializedAfterValidFrame == ValidFrame => isInit(ortAgent_)

C2_Witness == ValidFrame /\ ~last.before.init /\ isInit(ortAgent_) /\ last.published # <<>>

\* C3: a frame of height 0 is dropped: one warning, nothing published, no
\* container or session call, no exception, init flag and frame dimension as
\* before, and the node is still running.
C3_EmptyFrameDropped ==
  (last.kind = "frame" /\ last.msg.height = 0) =>
    /\ last.published = <<>>
    /\ last.calls = <<>>
    /\ last.thrown = NoThrow
    /\ last.warned = <<"Input image empty. Discarding.">>
    /\ ~last.dispatched
    /\ SessionStateKept
    /\ ortAgent_ = last.before
    /\ rclcpp_ok

C3_Witness ==
  /\ last.kind = "frame"
  /\ last.msg.height = 0
  /\ last.before.init
  /\ last.published = <<>>

\* C4: on an initialized container the callback throws "Input camera
\* changed. Please restart." exactly when the frame's width differs from the
\* stored width and its height differs from the stored height; when exactly
\* one of the two differs nothing is thrown, the switch is reached, and the
\* session is still the one built for the stored dimension.
C4_GuardNeedsBothDims ==
  (ValidFrame /\ last.before.init) =>
    LET colsDiffer == last.msg.width # last.before.width
        rowsDiffer == last.msg.height # last.before.height
    IN  /\ (last.thrown = CameraChanged) <=> (colsDiffer /\ rowsDiffer)
        /\ last.thrown \in {CameraChanged, NoThrow}
        /\ (colsDiffer # rowsDiffer) =>
             /\ last.thrown = NoThrow
             /\ last.dispatched
             /\ ortAgent_.session = <<last.before.width, last.before.height>>
             /\ SessionStateKept

C4_Witness ==
  /\ ValidFrame
  /\ last.before.init
  /\ last.msg.width # last.before.width
  /\ last.msg.height = last.before.height
  /\ last.thrown = NoThrow
  /\ last.published # <<>>

\* C5: when the geometry guard throws, the callback ends there: no session
\* or container call, nothing published, the switch not reached, and the
\* container (init flag, dimension, session) as before.
C5_GuardThrowStops ==
  (last.kind = "frame" /\ last.thrown = CameraChanged) =>
    /\ last.calls = <<>>
    /\ last.published = <<>>
    /\ ~last.dispatched
    /\ SessionStateKept
    /\ ortAgent_ = last.before

C5_Witness ==
  /\ last.kind = "frame"
  /\ last.thrown = CameraChanged
  /\ last.before.precision_level \in {1, 2, 3}
  /\ last.published = <<>>

\* C6: at precision level 2 or 3 a frame never publishes the structured
\* topic of the level when visualize is set, and never publishes the
\* visualization topic when it is not.
C6_OutputPathsExclusive ==
  (last.kind = "frame" /\ last.before.precision_level \in {2, 3}) =>
    LET structured == IF last.before.precision_level = 2 THEN p2_pub ELSE p3_pub IN
    /\ last.before.visualize => structured \notin TopicsOf(last.published)
    /\ ~last.before.visualize => visual_pub \notin TopicsOf(last.published)

C6_Witness ==
  /\ last.kind = "frame"
  /\ last.dispatched
  /\ last.before.precision_level = 2
  /\ last.before.visualize
  /\ TopicsOf(last.published) = {visual_pub}

\* C7: a frame that reaches the switch at precision level 1, 2 or 3 makes
\* exactly one session inference call and publishes exactly one message, on
\* the topic of its branch.
C7_OneBranchOneMessage ==
  (last.kind = "frame" /\ last.dispatched /\ last.before.precision_level \in {1, 2, 3}) =>
    LET level == last.before.precision_level
        vis == last.before.visualize
    IN  /\ Len(last.published) = 1
        /\ Len(InferCalls(last.calls)) = 1
        /\ level = 1 =>
             last.published[1].topic = p1_pub /\ InferCalls(last.calls) = <<"p1.infer">>
        /\ (level = 2 /\ ~vis) =>
             last.published[1].topic = p2_pub /\ InferCalls(last.calls) = <<"p2.infer_action">>
        /\ (level = 3 /\ ~vis) =>
             last.published[1].topic = p3_pub /\ InferCalls(last.calls) = <<"p3.infer_action">>
        /\ (level = 2 /\ vis) =>
             last.published[1].topic = visual_pub /\ InferCalls(last.calls) = <<"p2.infer_visualize">>
        /\ (level = 3 /\ vis) =>
             last.published[1].topic = visual_pub /\ InferCalls(last.calls) = <<"p3.infer_visualize">>

C7_Witness ==
  /\ last.kind = "frame"
  /\ last.dispatched
  /\ last.before.precision_level = 3
  /\ ~last.before.visualize
  /\ Len(last.published) = 1
  /\ last.published[1].topic = p3_pub

\* C8: at precision level 1 the visualize flag does not matter: the frame
\* publishes one message on epd_p1_output holding the classifier's names and
\* nothing on the visualization topic, and the same callback run with the
\* flag inverted makes the same calls, publishes the same and throws the same.
C8_P1IgnoresVisualize ==
  (last.kind = "frame" /\ last.before.precision_level = 1) =>
    LET twin == FrameResult([last.before EXCEPT !.visualize = ~@], last.msg, TRUE, last.ret) IN
    /\ twin.published = last.published
    /\ twin.calls = last.calls
    /\ twin.thrown = last.thrown
    /\ twin.agent = [ortAgent_ EXCEPT !.visualize = ~@]
    /\ visual_pub \notin TopicsOf(last.published)
    /\ last.dispatched =>
         last.published = <<Pub(p1_pub, [object_names |-> last.ret.names])>>

C8_Witness ==
  /\ last.kind = "frame"
  /\ last.dispatched
  /\ last.before.precision_level = 1
  /\ last.before.visualize
  /\ last.published = <<Pub(p1_pub, [object_names |-> <<"cup", "book">>])>>

\* C9: the structured message of level 2 or 3 published for a detector
\* output of data_size N has N class indices, N scores and N boxes, and N
\* masks at level 3, none at level 2; for N = 0 the message is published
\* with all four lists empty.
C9_LengthsEqualDataSize ==
  (last.kind = "frame" /\ last.dispatched
     /\ last.before.precision_level \in {2, 3} /\ ~last.before.visualize) =>
    /\ Len(last.published) = 1
    /\ LET m == last.published[1].msg
           N == last.ret.result.data_size
       IN  /\ Len(m.class_indices) = N
           /\ Len(m.scores) = N
           /\ Len(m.bboxes) = N
           /\ last.before.precision_level = 3 => Len(m.masks) = N
           /\ last.before.precision_level = 2 => m.masks = <<>>

C9_Witness ==
  /\ last.kind = "frame"
  /\ last.dispatched
  /\ last.before.precision_level = 3
  /\ ~last.before.visualize
  /\ last.ret.result.data_size = 2
  /\ Len(last.published[1].msg.masks) = 2

\* the uint32 of value n, for 0 <= n < 2^16
Small(n) == [hi |-> 0, lo |-> n]
\* the uint32 that is 2^32 - n, for 0 < n <= 2^16
Wrapped(n) == [hi |-> 65535, lo |-> 65536 - n]

\* C10: every RoI of a projected level 2 or level 3 message comes from the
\* box (x1, y1, x2, y2) at its index as x_offset = x1, y_offset = y1,
\* width = x2 - x1, height = y2 - y1 in uint32 arithmetic, do_rectify =
\* false; with x1 <= x2 and y1 <= y2 the width and height are the plain
\* differences (no wrap-around), and only a box with x1 > x2 or y1 > y2
\* wraps.
C10_RoiFromBox ==
  probe.done =>
    /\ Len(probe.msg.bboxes) = probe.result.data_size
    /\ \A i \in 1..probe.result.data_size :
         LET b == probe.result.bboxes[i]
             r == probe.msg.bboxes[i]
         IN  /\ r.x_offset = Small(b[1])
             /\ r.y_offset = Small(b[2])
             /\ r.do_rectify = FALSE
             /\ b[1] <= b[3] => r.width = Small(b[3] - b[1])
             /\ b[2] <= b[4] => r.height = Small(b[4] - b[2])
             /\ b[1] > b[3] => r.width = Wrapped(b[1] - b[3])
             /\ b[2] > b[4] => r.height = Wrapped(b[2] - b[4])

C10_Witness ==
  /\ probe.done
  /\ probe.level = 2
  /\ probe.result.data_size = 2
  /\ probe.result.bboxes[2] = <<1, 0, 1, 1>>
  /\ probe.msg.bboxes[2] =
       [x_offset |-> Small(1), y_offset |-> Small(0),
        width |-> Small(0), height |-> Small(1), do_rectify |-> FALSE]

\* C11: element i of the published class indices, scores, boxes and (at
\* level 3) masks comes from element i of the detector's vector of the same
\* kind, for every i in 1..N: nothing is dropped, filtered or reordered.
C11_OrderPreserved ==
  (last.kind = "frame" /\ last.dispatched
     /\ last.before.precision_level \in {2, 3} /\ ~last.before.visualize) =>
    LET m == last.published[1].msg
        res == last.ret.result
        N == res.data_size
    IN  /\ m.class_indices = res.classIndices
        /\ m.scores = res.scores
        /\ Len(m.bboxes) = N
        /\ \A i \in 1..N :
             /\ m.bboxes[i].x_offset = Small(res.bboxes[i][1])
             /\ m.bboxes[i].y_offset = Small(res.bboxes[i][2])
             /\ m.bboxes[i].width = Small(res.bboxes[i][3] - res.bboxes[i][1])
             /\ m.bboxes[i].height = Small(res.bboxes[i][4] - res.bboxes[i][2])
        /\ last.before.precision_level = 3 =>
             /\ Len(m.masks) = N
             /\ \A i \in 1..N :
                  /\ m.masks[i].data = res.masks[i].data
                  /\ m.masks[i].width = res.masks[i].cols
                  /\ m.masks[i].height = res.masks[i].rows
                  /\ m.masks[i].encoding = "32FC1"

C11_Witness ==
  /\ last.kind = "frame"
  /\ last.dispatched
  /\ last.before.precision_level = 3
  /\ ~last.before.visualize
  /\ last.ret.result.classIndices = <<7, 3>>
  /\ last.published[1].msg.class_indices = <<7, 3>>
  /\ last.published[1].msg.scores = <<40, 90>>
  /\ last.published[1].msg.masks[1].data = "maskB"

\* C12: once the container is initialized no callback writes it again: every
\* step from an initialized container leaves the whole container (init flag,
\* dimension, session, configuration) as it is; no step at all changes
\* precision_level or visualize; and an initialized container holds the
\* dimension of the first frame of non-zero height.
C12_SessionStateFrozen ==
  [][/\ isInit(ortAgent_) => ortAgent_' = ortAgent_
     /\ ortAgent_'.precision_level = ortAgent_.precision_level
     /\ ortAgent_'.visualize = ortAgent_.visualize
     /\ isInit(ortAgent_') =>
          /\ ortAgent_'.width = run'.firstValid.width
          /\ ortAgent_'.height = run'.firstValid.height]_vars

C12_Witness ==
  /\ isInit(ortAgent_)
  /\ run.n = MaxFrames
  /\ last.kind = "frame"
  /\ last.thrown = CameraChanged
  /\ ~run.uniform
  /\ ortAgent_.width = run.firstValid.width
  /\ ortAgent_.height = run.firstValid.height

\* C13: a control message shuts the node down if and only if its payload
\* is exactly "shutdown" (the one-segment payload <<"shutdown">>), and after
\* the shutdown no further callback runs.
C13_ShutdownIffExactPayload ==
  /\ last.kind = "state" => (~rclcpp_ok <=> last.data = <<"shutdown">>)
  /\ ~rclcpp_ok => last.kind = "state"

\* C14: a control message whose payload is not exactly "shutdown" logs the
\* warning and does nothing else: nothing published, the node still running,
\* the container as before.
C14_OtherPayloadOnlyWarns ==
  (last.kind = "state" /\ last.data # <<"shutdown">>) =>
    /\ last.warned = <<"Invalid state requested.">>
    /\ last.published = <<>>
    /\ last.calls = <<>>
    /\ rclcpp_ok
    /\ ortAgent_ = last.before

\* C16: on an initialized container the callback throws when either
\* dimension of the frame differs from the stored one (the width alone, the
\* height alone, or both), and goes on to the switch otherwise.
C16_EitherDimThrows ==
  (ValidFrame /\ last.before.init) =>
    LET colsDiffer == last.msg.width # last.before.width
        rowsDiffer == last.msg.height # last.before.height
    IN  /\ (last.thrown = CameraChanged) <=> (colsDiffer \/ rowsDiffer)
        /\ ~(colsDiffer \/ rowsDiffer) => (last.thrown = NoThrow /\ last.dispatched)

\* C17: no inference call is made on an uninitialized container: a callback
\* that makes an inference call leaves the container initialized with a
\* session built; on the first valid frame its calls are, in this order,
\* setFrameDimension, initORTSessionHandler, setInitBoolean, the inference
\* call; on a later frame the inference call alone, the session being there
\* already.  A callback that leaves the container uninitialized made no
\* inference call.
C17_InferAfterInit ==
  last.kind = "frame" =>
    /\ ~isInit(ortAgent_) => InferCalls(last.calls) = <<>>
    /\ InferCalls(last.calls) # <<>> =>
         /\ isInit(ortAgent_)
         /\ ortAgent_.session # NoSession
         /\ initCalls >= 1
         /\ Len(InferCalls(last.calls)) = 1
         /\ ~last.before.init =>
              last.calls = <<"setFrameDimension", "initORTSessionHandler", "setInitBoolean">>
                             \o InferCalls(last.calls)
         /\ last.before.init =>
              /\ last.calls = InferCalls(last.calls)
              /\ last.before.session # NoSession

C17_Witness ==
  /\ ValidFrame
  /\ ~last.before.init
  /\ initCalls = 2
  /\ last.calls = <<"setFrameDimension", "initORTSessionHandler", "setInitBoolean",
                    "p3.infer_action">>

\* C18: when the session initializer throws on a valid frame, the callback
\* ends with nothing published and no inference call, the container still
\* uninitialized and without a session, but holding the frame's dimension;
\* and every valid frame that finds the container uninitialized, whatever
\* dimension is stored, stores its own dimension and calls the initializer.
C18_InitFailureRetried ==
  /\ (last.kind = "frame" /\ last.thrown = SessionError) =>
       /\ last.published = <<>>
       /\ ~last.dispatched
       /\ last.calls = <<"setFrameDimension", "initORTSessionHandler">>
       /\ ~isInit(ortAgent_)
       /\ ortAgent_.session = NoSession
       /\ ortAgent_.width = last.msg.width
       /\ ortAgent_.height = last.msg.height
  /\ (ValidFrame /\ ~last.before.init) =>
       /\ Count(last.calls, "initORTSessionHandler") = 1
       /\ last.calls[1] = "setFrameDimension"
       /\ ortAgent_.width = last.msg.width
       /\ ortAgent_.height = last.msg.height

\* the initializer has run twice: it threw on a frame of one width, and ran
\* again on the next valid frame, of another width, which replaced the
\* stored dimension
C18_Witness ==
  /\ ValidFrame
  /\ ~last.before.init
  /\ last.before.width # 0
  /\ last.before.width # last.msg.width
  /\ ortAgent_.width = last.msg.width
  /\ isInit(ortAgent_)
  /\ initCalls = 2

\* C19: with precision_level outside {1, 2, 3} a valid frame still goes
\* through the bootstrap (the first one initializes the session, a later one
\* passes or fails the geometry guard), but the switch selects nothing: no
\* inference call, nothing published; and the callback throws nothing unless
\* the geometry guard does.
C19_NoBranchOutsideLevels ==
  (ValidFrame /\ last.before.precision_level \notin {1, 2, 3}) =>
    /\ InferCalls(last.calls) = <<>>
    /\ last.published = <<>>
    /\ last.thrown \in {NoThrow, CameraChanged}
    /\ last.thrown = CameraChanged =>
         /\ last.before.init
         /\ last.msg.width # last.before.width
         /\ last.msg.height # last.before.height
    /\ last.thrown = NoThrow => (last.dispatched /\ isInit(ortAgent_))
    /\ ~last.before.init =>
         /\ last.thrown = NoThrow
         /\ last.calls = <<"setFrameDimension", "initORTSessionHandler", "setInitBoolean">>
         /\ ortAgent_.session = <<last.msg.width, last.msg.height>>

C19_Witness ==
  /\ ValidFrame
  /\ last.before.precision_level = 4
  /\ ~last.before.init
  /\ isInit(ortAgent_)
  /\ last.dispatched
  /\ last.published = <<>>

\* positions of the trace holding event ev
At(ev) == {p \in 1..Len(exec.trace) : exec.trace[p].ev = ev}

\* C15: callbacks are serialized.  The frame callbacks begin in arrival
\* order (the k-th to begin is on the k-th frame to arrive); a publication
\* caused by frame k lies between the begin and the end of frame k's
\* callback, so before any later callback begins; and a control message is
\* handled only when every callback begun has ended.
C15_CallbacksSerialized ==
  /\ \A p \in At("begin") :
       exec.trace[p].id = Cardinality({q \in At("begin") : q <= p})
  /\ \A p \in At("publish") :
       LET k == exec.trace[p].id IN
       /\ \E b \in At("begin") : b < p /\ exec.trace[b].id = k
       /\ \A b \in At("begin") : b < p => exec.trace[b].id <= k
       /\ \A e \in At("end") : exec.trace[e].id = k => p < e
  /\ \A p \in At("state") :
       Cardinality({b \in At("begin") : b < p}) = Cardinality({e \in At("end") : e < p})
  /\ \A p \in At("begin") :
       Cardinality({b \in At("begin") : b < p}) = Cardinality({e \in At("end") : e < p})

C15_Witness ==
  /\ Len(exec.trace) >= 7
  /\ exec.trace[1] = Event("begin", 1)
  /\ exec.trace[2] = Event("publish", 1)
  /\ exec.trace[3] = Event("end", 1)
  /\ exec.trace[4] = Event("state", 0)
  /\ exec.trace[5] = Event("begin", 2)
  /\ exec.trace[6] = Event("publish", 2)
  /\ exec.trace[7] = Event("end", 2)
  /\ exec.imageQ # <<>>

=============================================================================
